---- MODULE Spec2Model ----
(***************************************************************************)
(* A model of blockchain/src/main.rs: users with key files, signed         *)
(* transactions, Merkle batches, blocks and the chain.                     *)
(*                                                                         *)
(* Bytes are sequences of integers.  A digest (type Hash, [u8; 32]) is a   *)
(* self-delimiting sequence: the all-zero digest is <<0>> and blake3 of a  *)
(* byte string b is <<Len(b) + 1>> \o b, so that the hash is collision     *)
(* free and the concatenation of digests can be told apart, as the         *)
(* concatenation of fixed-width digests can.                               *)
(***************************************************************************)
EXTENDS Integers, Sequences, FiniteSets, TLC

VARIABLES
    txn,          \* SpecTxn: the transaction being worked on
    created,      \* SpecTxn: the value Txn::new returned for it
    signedWith,   \* SpecTxn: <<keypair>> of the last sign call, <<>> if none
    signedOver,   \* SpecTxn: the fields of txn when sign was last called
    signs,        \* SpecTxn: number of sign calls since Txn::new
    tampered,     \* SpecTxn: number of field assignments since Txn::new
    verified,     \* SpecTxn: outcome of the last Txn::verify call
    batch,        \* SpecTxns: a Txns value
    rootStatus,   \* SpecTxns: outcome of the last calc_merkle_root call
    batchValid,   \* SpecTxns: outcome of the last Txns::verify call
    blocks,       \* SpecChain: Blockchain.blocks
    pending,      \* SpecChain: blocks built with Block::new, not yet added
    added,        \* SpecChain: the arguments of add_block, in call order
    data,         \* SpecUser: data/<uid>.user, <<>> when the file is absent
    secret,       \* SpecUser: secret/<uid>.priv, <<>> when the file is absent
    user,         \* SpecUser: the User values held in memory, by uid
    loaded        \* SpecUser: outcome of the last from_uid / get_keypair call

txnVars   == <<txn, created, signedWith, signedOver, signs, tampered, verified>>
batchVars == <<batch, rootStatus, batchValid>>
chainVars == <<blocks, pending, added>>
userVars  == <<data, secret, user, loaded>>
vars      == <<txnVars, batchVars, chainVars, userVars>>

(***************************************************************************)
(* Bounds and sampled inputs.                                              *)
(***************************************************************************)
MaxSigns  == 2      \* sign calls per transaction
MaxAssigns == 1     \* field assignments per transaction
MaxBatch  == 3      \* transactions per batch
MaxBlocks == 2      \* blocks built and blocks added
MaxKeys   == 2      \* keypairs the random generator can return

UIDs     == {1, 2}            \* uid strings
Nonces   == {1, 2}            \* values of gen_nonce()
Amounts  == {10, 11, 12}      \* the amounts of main
Elapsed  == {0}               \* Instant::now().elapsed().as_millis()
Secrets  == 1..MaxKeys

(***************************************************************************)
(* Hasher and canonical encoder.                                           *)
(***************************************************************************)
ZeroHash == <<0>>

Hash(bytes) == <<Len(bytes) + 1>> \o bytes

\* The width of the digest that starts a byte string.
HashLen(bytes) == IF bytes[1] = 0 THEN 1 ELSE bytes[1]

\* bincode::serialize of a User: the fields in declaration order.
SerUser(u) == u.address \o <<u.timestamp, u.nonce, u.public_key, u.uid>>

\* bincode::deserialize of a User.
DeUser(bytes) ==
    LET n == HashLen(bytes)
    IN  [address    |-> SubSeq(bytes, 1, n),
         timestamp  |-> bytes[n + 1],
         nonce      |-> bytes[n + 2],
         public_key |-> bytes[n + 3],
         uid        |-> bytes[n + 4]]

\* bincode::serialize of a Txn: the fields in declaration order, the
\* signature Vec<u8> as its length followed by its bytes.
Txn_to_bytes(t) ==
    t.id \o t.sender \o t.recipient \o <<t.amount, t.timestamp>>
         \o <<Len(t.signature)>> \o t.signature

(***************************************************************************)
(* ed25519: keypairs, detached signatures.  A signature is determined by   *)
(* the key and the message and verifies under no other key or message.     *)
(***************************************************************************)
PublicOf(sk) == 100 + sk

Keypair(sk) == [secret |-> sk, public |-> PublicOf(sk)]

KeypairToBytes(kp) == <<kp.secret, kp.public>>

KeypairFromBytes(bytes) == [secret |-> bytes[1], public |-> bytes[2]]

EdSign(kp, msg) == <<kp.public>> \o Hash(msg)

\* Signature::from_bytes accepts exactly the byte strings of signature shape.
SignatureFromBytesOk(bytes) == Len(bytes) >= 3 /\ bytes[2] = Len(bytes) - 1

EdVerify(pub, msg, sig) == sig = <<pub>> \o Hash(msg)

(***************************************************************************)
(* User                                                                    *)
(***************************************************************************)
User_hash(u) == [u EXCEPT !.address = Hash(SerUser(u))]

User_new(uid, kp, nonce, now) ==
    User_hash([address    |-> ZeroHash,
              timestamp  |-> now,
              nonce      |-> nonce,
              public_key |-> kp.public,
              uid        |-> uid])

(***************************************************************************)
(* Txn                                                                     *)
(***************************************************************************)
Txn_hash(t) == [t EXCEPT !.id = Hash(Txn_to_bytes(t))]

Txn_new(sender, recipient, amount, now) ==
    Txn_hash([id        |-> ZeroHash,
             sender    |-> sender.address,
             recipient |-> recipient.address,
             amount    |-> amount,
             timestamp |-> now,
             signature |-> <<>>])

\* A sign that recomputes the id once the signature is set.
Txn_sign_rehash(t, kp) ==
    Txn_hash([t EXCEPT !.signature = EdSign(kp, Txn_to_bytes(t))])

\* Txn::sign: serialises self as it is, signature field included.
Txn_sign(t, kp) == [t EXCEPT !.signature = EdSign(kp, Txn_to_bytes(t))]

\* A verify that reports every well-formed signature Valid.
Txn_verify_unchecked(t, pub) ==
    IF ~SignatureFromBytesOk(t.signature) THEN "panic" ELSE "Valid"

\* Txn::verify: "panic" is the failed expect on Signature::from_bytes.
Txn_verify(t, pub) ==
    IF ~SignatureFromBytesOk(t.signature) THEN "panic"
    ELSE LET no_sig == [t EXCEPT !.signature = <<>>]
         IN  IF EdVerify(pub, Txn_to_bytes(no_sig), t.signature)
             THEN "Valid" ELSE "Invalid"

(***************************************************************************)
(* SpecTxn: one transaction, created, signed, assigned to and verified.    *)
(***************************************************************************)
\* The users of main: one per uid, each with its own keypair.
SampleUser(uid) == User_new(uid, Keypair(uid), 1, 0)

\* The amounts transactions are created with and assigned in SpecTxn.
TxnAmounts == {10, 11}

NoVerdict == [key |-> 0, out |-> "none"]

Fields(t) == [t EXCEPT !.signature = <<>>]

\* A failed expect aborts the process: nothing runs after it.
TxnRunning == verified.out # "panic"

TxnInitWith(t) ==
    /\ txn = t
    /\ created = t
    /\ signedWith = <<>>
    /\ signedOver = Fields(t)
    /\ signs = 0
    /\ tampered = 0
    /\ verified = NoVerdict

TxnIdle ==
    TxnInitWith(Txn_new(SampleUser(1), SampleUser(2), 10, 0))

DoTxnNew ==
    /\ TxnRunning
    /\ \E s \in UIDs, r \in UIDs, a \in TxnAmounts, now \in Elapsed :
          LET t == Txn_new(SampleUser(s), SampleUser(r), a, now)
          IN  /\ txn' = t
              /\ created' = t
              /\ signedOver' = Fields(t)
    /\ signedWith' = <<>>
    /\ signs' = 0
    /\ tampered' = 0
    /\ verified' = NoVerdict

DoTxnSign ==
    /\ TxnRunning
    /\ signs < MaxSigns
    /\ \E sk \in Secrets :
          /\ txn' = Txn_sign(txn, Keypair(sk))
          /\ signedWith' = <<Keypair(sk)>>
    /\ signedOver' = Fields(txn)
    /\ signs' = signs + 1
    /\ verified' = NoVerdict
    /\ UNCHANGED <<created, tampered>>

DoTxnVerify ==
    /\ TxnRunning
    /\ \E sk \in Secrets :
          verified' = [key |-> PublicOf(sk), out |-> Txn_verify(txn, PublicOf(sk))]
    /\ UNCHANGED <<txn, created, signedWith, signedOver, signs, tampered>>

\* The fields of Txn are plain data: code holding a Txn may assign to them.
TamperedTxns ==
    {[txn EXCEPT !.amount = a] : a \in TxnAmounts}
    \cup {[txn EXCEPT !.timestamp = n] : n \in Elapsed \cup {1}}
    \cup {[txn EXCEPT !.sender = SampleUser(u).address] : u \in UIDs}
    \cup {[txn EXCEPT !.recipient = SampleUser(u).address] : u \in UIDs}
    \cup {[txn EXCEPT !.id = ZeroHash]}

DoTxnAssign ==
    /\ TxnRunning
    /\ tampered < MaxAssigns
    /\ \E t \in TamperedTxns :
          /\ t # txn
          /\ txn' = t
    /\ tampered' = tampered + 1
    /\ verified' = NoVerdict
    /\ UNCHANGED <<created, signedWith, signedOver, signs>>

(***************************************************************************)
(* Txns                                                                    *)
(***************************************************************************)
Txns_new == [txns |-> <<>>, merkle_root |-> ZeroHash]

Txns_add(b, t) == [b EXCEPT !.txns = Append(b.txns, t)]

\* Txns::verify returns Valid whatever the batch holds.
Txns_verify(b) == "Valid"

\* The 64-byte buffer hashed for the pair starting at leaves[i]: both halves
\* are copied from leaves[i] (lines 193 and 197).
Concat(leaves, i) == leaves[i] \o leaves[i]

\* The loop over (0..leaves.len() - 1).step_by(2), for an even, non-zero length.
Branches(leaves) ==
    [k \in 1..(Len(leaves) \div 2) |-> Hash(Concat(leaves, 2 * k - 1))]

\* With no leaves, leaves.len() - 1 underflows: a build with overflow checks
\* panics there, a build without them wraps and panics on leaves[0].
PanicKinds == {"subtract_overflow", "index_out_of_bounds"}

RECURSIVE calc_merkle_root_r(_)
calc_merkle_root_r(leaves) ==
    IF Len(leaves) = 1 THEN [status |-> "ok", root |-> leaves[1]]
    ELSE LET padded == IF Len(leaves) % 2 # 0
                       THEN Append(leaves, leaves[Len(leaves)])
                       ELSE leaves
         IN  IF Len(padded) = 0
             THEN [status |-> "panic", root |-> ZeroHash]
             ELSE calc_merkle_root_r(Branches(padded))

merkle_leaves(b) == [i \in 1..Len(b.txns) |-> b.txns[i].id]

calc_merkle_root(b) ==
    LET r == calc_merkle_root_r(merkle_leaves(b))
    IN  IF r.status = "ok" THEN [b EXCEPT !.merkle_root = r.root] ELSE b

(***************************************************************************)
(* SpecTxns: one batch, filled, rooted and verified.                       *)
(***************************************************************************)
\* The transactions of main: user 1 pays user 2, signed by user 1 or unsigned.
SampleTxn(a, signed) ==
    LET t == Txn_new(SampleUser(1), SampleUser(2), a, 0)
    IN  IF signed THEN Txn_sign(t, Keypair(1)) ELSE t

SampleTxns == {SampleTxn(a, sg) : a \in Amounts, sg \in BOOLEAN}

\* The public key of the user whose address is addr, 0 when there is none.
PublicKeyOf(addr) ==
    IF \E u \in UIDs : SampleUser(u).address = addr
    THEN SampleUser(CHOOSE u \in UIDs : SampleUser(u).address = addr).public_key
    ELSE 0

BatchRunning == rootStatus \notin PanicKinds

BatchIdle ==
    /\ batch = Txns_new
    /\ rootStatus = "none"
    /\ batchValid = "none"

DoTxnsAdd ==
    /\ BatchRunning
    /\ Len(batch.txns) < MaxBatch
    /\ \E t \in SampleTxns : batch' = Txns_add(batch, t)
    /\ rootStatus' = "none"
    /\ batchValid' = "none"

DoCalcMerkleRoot ==
    /\ BatchRunning
    /\ batch' = calc_merkle_root(batch)
    /\ IF calc_merkle_root_r(merkle_leaves(batch)).status = "ok"
       THEN rootStatus' = "ok"
       ELSE rootStatus' \in PanicKinds
    /\ UNCHANGED batchValid

DoTxnsVerify ==
    /\ BatchRunning
    /\ batchValid' = Txns_verify(batch)
    /\ UNCHANGED <<batch, rootStatus>>

(***************************************************************************)
(* Block and Blockchain                                                    *)
(***************************************************************************)
RECURSIVE SerTxnSeq(_)
SerTxnSeq(ts) ==
    IF ts = <<>> THEN <<>> ELSE Txn_to_bytes(Head(ts)) \o SerTxnSeq(Tail(ts))

\* bincode::serialize of a Txns: the Vec<Txn> as its length and elements.
SerTxns(b) == <<Len(b.txns)>> \o SerTxnSeq(b.txns) \o b.merkle_root

\* bincode::serialize of a Block: the fields in declaration order.
SerBlock(b) ==
    b.hash \o b.prev_hash \o SerTxns(b.txns) \o <<b.index, b.timestamp, b.nonce>>

Block_hash(b) == [b EXCEPT !.hash = Hash(SerBlock(b))]

Block_new(prev_hash, txns, index, nonce, now) ==
    Block_hash([hash      |-> ZeroHash,
                prev_hash |-> prev_hash,
                txns      |-> txns,
                index     |-> index,
                nonce     |-> nonce,
                timestamp |-> now])

\* An add_block that accepts only a block linked to the current tail.
add_block_linked(chain, block) ==
    IF chain = <<>> \/ block.prev_hash = chain[Len(chain)].hash
    THEN Append(chain, block)
    ELSE chain

add_block(chain, block) == Append(chain, block)

(***************************************************************************)
(* SpecChain: blocks are built, then moved into the chain.                 *)
(***************************************************************************)
SampleBatches ==
    {Txns_new, calc_merkle_root(Txns_add(Txns_new, SampleTxn(10, TRUE)))}

Indices == {0, 1}

KnownHashes == {ZeroHash} \cup {b.hash : b \in pending}
                          \cup {blocks[i].hash : i \in 1..Len(blocks)}

ChainIdle ==
    /\ blocks = <<>>
    /\ pending = {}
    /\ added = <<>>

DoBlockNew ==
    /\ Cardinality(pending) + Len(blocks) < MaxBlocks
    /\ \E prev \in KnownHashes, b \in SampleBatches, i \in Indices,
          n \in Nonces, now \in Elapsed :
          pending' = pending \cup {Block_new(prev, b, i, n, now)}
    /\ UNCHANGED <<blocks, added>>

DoAddBlock ==
    \E b \in pending :
        /\ blocks' = add_block(blocks, b)
        /\ pending' = pending \ {b}
        /\ added' = Append(added, b)

(***************************************************************************)
(* SpecUser: users, their records in data/ and their keys in secret/.      *)
(***************************************************************************)
\* User::gen_keypair: the content of secret/<uid>.priv afterwards.
gen_keypair(files, uid, kp) == [files EXCEPT ![uid] = KeypairToBytes(kp)]

\* User::to_disk: the content of data/<uid>.user afterwards.
to_disk(files, u) == [files EXCEPT ![u.uid] = SerUser(u)]

\* User::from_uid, for a file that exists.
from_uid(files, uid) == DeUser(files[uid])

\* User::get_keypair, for a file that exists.
get_keypair(files, uid) == KeypairFromBytes(files[uid])

NoLoad == [op |-> "none", uid |-> 0, out |-> "none", public |-> 0]

UserIdle ==
    /\ data = [u \in UIDs |-> <<>>]
    /\ secret = [u \in UIDs |-> <<>>]
    /\ user = [u \in UIDs |-> <<>>]
    /\ loaded = NoLoad

DoUserNew ==
    /\ \E uid \in UIDs, sk \in Secrets, n \in Nonces, now \in Elapsed :
          /\ secret' = gen_keypair(secret, uid, Keypair(sk))
          /\ user' = [user EXCEPT ![uid] = <<User_new(uid, Keypair(sk), n, now)>>]
    /\ loaded' = NoLoad
    /\ UNCHANGED data

DoToDisk ==
    /\ \E uid \in UIDs :
          /\ user[uid] # <<>>
          /\ data' = to_disk(data, user[uid][1])
    /\ loaded' = NoLoad
    /\ UNCHANGED <<secret, user>>

\* A missing file fails the expect: the process ends and its memory is lost,
\* the files stay.
DoFromUid ==
    /\ \E uid \in UIDs :
          IF data[uid] = <<>>
          THEN /\ loaded' = [op |-> "from_uid", uid |-> uid, out |-> "panic", public |-> 0]
               /\ user' = [u \in UIDs |-> <<>>]
          ELSE /\ loaded' = [op |-> "from_uid", uid |-> uid, out |-> "ok",
                             public |-> from_uid(data, uid).public_key]
               /\ user' = [user EXCEPT ![uid] = <<from_uid(data, uid)>>]
    /\ UNCHANGED <<data, secret>>

DoGetKeypair ==
    /\ \E uid \in UIDs :
          IF secret[uid] = <<>>
          THEN /\ loaded' = [op |-> "get_keypair", uid |-> uid, out |-> "panic", public |-> 0]
               /\ user' = [u \in UIDs |-> <<>>]
          ELSE /\ loaded' = [op |-> "get_keypair", uid |-> uid, out |-> "ok",
                             public |-> get_keypair(secret, uid).public]
               /\ UNCHANGED user
    /\ UNCHANGED <<data, secret>>

(***************************************************************************)
(* Specifications, one per component.                                      *)
(***************************************************************************)
InitTxn == 
    /\ \E s \in UIDs, r \in UIDs, a \in TxnAmounts, now \in Elapsed :
          TxnInitWith(Txn_new(SampleUser(s), SampleUser(r), a, now))
    /\ BatchIdle /\ ChainIdle /\ UserIdle

NextTxn ==
    \/ DoTxnNew /\ UNCHANGED <<batchVars, chainVars, userVars>>
    \/ DoTxnSign /\ UNCHANGED <<batchVars, chainVars, userVars>>
    \/ DoTxnVerify /\ UNCHANGED <<batchVars, chainVars, userVars>>
    \/ DoTxnAssign /\ UNCHANGED <<batchVars, chainVars, userVars>>

SpecTxn == InitTxn /\ [][NextTxn]_vars

InitTxns == TxnIdle /\ BatchIdle /\ ChainIdle /\ UserIdle

NextTxns ==
    \/ DoTxnsAdd /\ UNCHANGED <<txnVars, chainVars, userVars>>
    \/ DoCalcMerkleRoot /\ UNCHANGED <<txnVars, chainVars, userVars>>
    \/ DoTxnsVerify /\ UNCHANGED <<txnVars, chainVars, userVars>>

SpecTxns == InitTxns /\ [][NextTxns]_vars

InitChain == TxnIdle /\ BatchIdle /\ ChainIdle /\ UserIdle

NextChain ==
    \/ DoBlockNew /\ UNCHANGED <<txnVars, batchVars, userVars>>
    \/ DoAddBlock /\ UNCHANGED <<txnVars, batchVars, userVars>>

SpecChain == InitChain /\ [][NextChain]_vars

InitUser == TxnIdle /\ BatchIdle /\ ChainIdle /\ UserIdle

NextUser ==
    \/ DoUserNew /\ UNCHANGED <<txnVars, batchVars, chainVars>>
    \/ DoToDisk /\ UNCHANGED <<txnVars, batchVars, chainVars>>
    \/ DoFromUid /\ UNCHANGED <<txnVars, batchVars, chainVars>>
    \/ DoGetKeypair /\ UNCHANGED <<txnVars, batchVars, chainVars>>

SpecUser == InitUser /\ [][NextUser]_vars

(***************************************************************************)
(* Properties                                                              *)
(***************************************************************************)
\* The reduction of section 4.5: a single node is the root, an odd level has
\* its last node duplicated, each adjacent pair becomes hash(left || right).
RECURSIVE ReferenceRoot(_)
ReferenceRoot(leaves) ==
    IF Len(leaves) = 1 THEN leaves[1]
    ELSE LET padded == IF Len(leaves) % 2 # 0
                       THEN Append(leaves, leaves[Len(leaves)])
                       ELSE leaves
         IN  ReferenceRoot([k \in 1..(Len(padded) \div 2) |->
                               Hash(padded[2 * k - 1] \o padded[2 * k])])

\* C1: after calc_merkle_root on a non-empty batch, merkle_root is the
\* reference reduction of the transaction ids in batch order.
C1_RootIsReferenceReduction ==
    (rootStatus = "ok" /\ Len(batch.txns) >= 1)
        => batch.merkle_root = ReferenceRoot(merkle_leaves(batch))

\* C2: Txn::verify never aborts, and a transaction whose signature bytes are
\* not a well-formed signature is reported Invalid under every public key.
C2_VerifyNeverAborts ==
    /\ verified.out # "panic"
    /\ (verified.out # "none" /\ ~SignatureFromBytesOk(txn.signature))
           => verified.out = "Invalid"

\* C3: after one or more sign calls, the last with keypair K, and no
\* assignment since, verify with K's public key returns Valid.
C3_SignThenVerifyValid ==
    (/\ verified.out # "none"
     /\ signs >= 1
     /\ Fields(txn) = signedOver
     /\ verified.key = signedWith[1].public)
        => verified.out = "Valid"

\* C4: verify returns Valid only if the last sign call used the keypair of
\* the given public key and id, sender, recipient, amount and timestamp are
\* what they were at that call; verifying a signed record with another key,
\* or after one of these fields changed, returns Invalid.
C4_VerifySound ==
    /\ verified.out = "Valid"
           => /\ signedWith # <<>>
              /\ signedWith[1].public = verified.key
              /\ Fields(txn) = signedOver
    /\ (/\ verified.out # "none"
        /\ signedWith # <<>>
        /\ (signedWith[1].public # verified.key \/ Fields(txn) # signedOver))
           => verified.out = "Invalid"

\* A record signed once, a field assigned afterwards, verified with the
\* signer's public key.
C4_Witness ==
    /\ signs = 1
    /\ verified.out = "Invalid"
    /\ verified.key = signedWith[1].public
    /\ Fields(txn) # signedOver

\* C5: Txns::verify reports a batch Valid only if every transaction in it
\* verifies against its sender's public key; an unsigned one prevents it.
C5_BatchVerifySound ==
    batchValid = "Valid"
        => \A i \in 1..Len(batch.txns) :
              /\ batch.txns[i].signature # <<>>
              /\ Txn_verify(batch.txns[i], PublicKeyOf(batch.txns[i].sender)) = "Valid"

\* C6: as long as no field is assigned, the transaction differs from the
\* value Txn::new returned in its signature only, and its id is the hash of
\* its encoding with the id zero and the signature empty.
C6_IdFixedAtConstruction ==
    tampered = 0
        => /\ Fields(txn) = created
           /\ txn.id = Hash(Txn_to_bytes([created EXCEPT !.id = ZeroHash]))

\* A transaction signed twice.
C6_Witness ==
    /\ signs >= 2
    /\ tampered = 0
    /\ txn.signature # <<>>
    /\ txn.id = created.id

Reordered(b, q) == [b EXCEPT !.txns = [i \in 1..Len(b.txns) |-> b.txns[q[i]]]]

DistinctIds(b) ==
    \A i, j \in 1..Len(b.txns) : i # j => b.txns[i].id # b.txns[j].id

\* C7: for pairwise distinct ids, every batch holding the same records in
\* another order gets another root.
C7_RootOrderSensitive ==
    (rootStatus = "ok" /\ DistinctIds(batch))
        => \A q \in Permutations(1..Len(batch.txns)) :
              (\E i \in 1..Len(batch.txns) : q[i] # i)
                  => calc_merkle_root(Reordered(batch, q)).merkle_root
                         # batch.merkle_root

\* C8: blocks is the sequence of the arguments of add_block in call order:
\* every call appends its block, whatever its prev_hash and index, and
\* leaves the blocks before it as they were.
C8_AppendOnly == blocks = added

\* Two blocks in the chain, the second neither linked to the first nor
\* later in index.
C8_Witness ==
    /\ Len(blocks) >= 2
    /\ blocks[2].prev_hash # blocks[1].hash
    /\ blocks[2].index <= blocks[1].index

\* C9: calc_merkle_root ends normally for every batch size, zero included.
C9_CalcRootEndsNormally == rootStatus \notin PanicKinds

\* C10: whenever a user record and a private key are both stored for a uid,
\* the record's public key is the public half of the stored keypair.
C10_KeyStoreConsistent ==
    \A uid \in UIDs :
        (data[uid] # <<>> /\ secret[uid] # <<>>)
            => from_uid(data, uid).public_key = get_keypair(secret, uid).public

====
